---- MODULE Spec2Model ----
(***************************************************************************)
(* IosAssetGenerator (src/platforms/ios/index.ts): generate() dispatches   *)
(* on the input asset's kind, writes image files through the transform     *)
(* pipeline and, for the dark splash, rewrites the image set's             *)
(* Contents.json (updateContentsJsonDark).                                 *)
(*                                                                         *)
(* A call of generate is a process; one action is the code between two     *)
(* awaits.  File reads and writes are atomic.  The icon fan-out            *)
(* (Promise.all over the icon templates) is one action that picks the set  *)
(* of icon files that got written: icon files are touched by nothing else, *)
(* so the order in which sibling writes complete is not observable.        *)
(***************************************************************************)
EXTENDS Integers, Sequences, FiniteSets, TLC

\* ------------------------------------------------------------------ bounds
\* generate() calls started in one behaviour
MaxCalls == 2
\* entries in the Contents.json the project starts with
MaxInit == 2
\* sibling writes of one icon fan-out that fail
MaxFailures == 1

\* two callers, so that two generate() calls can be in flight at once
Procs == {"p1", "p2"}

\* --------------------------------------------------------------- constants
IOS_APP_ICON_SET_PATH == "App/Assets.xcassets/AppIcon.appiconset"
IOS_SPLASH_IMAGE_SET_PATH == "App/Assets.xcassets/Splash.imageset"

\* path.join(iosDir, <set path>, <file name>); iosDir is the same in every call
join(dir, name) == dir \o "/" \o name

ContentsJsonPath == join(IOS_SPLASH_IMAGE_SET_PATH, "Contents.json")

\* AssetKind; "Other" stands for every kind the switch has no case for
\* (the Android kinds: AdaptiveIcon, IconForeground, Banner, ...)
IconFamily == {"Icon", "NotificationIcon", "SettingsIcon", "SpotlightIcon"}
AssetKind == {"Logo", "LogoDark", "Splash", "SplashDark", "Other"} \cup IconFamily

\* The template catalog ./assets (static records: kind, name, scale)
IOS_2X_UNIVERSAL_ANYANY_SPLASH ==
  [kind |-> "Splash", name |-> "Default@2x~universal~anyany.png", scale |-> 2]
IOS_2X_UNIVERSAL_ANYANY_SPLASH_DARK ==
  [kind |-> "SplashDark", name |-> "Default@2x~universal~anyany-dark.png", scale |-> 2]

\* Object.values(IosAssetTemplates), in export order; a template of the
\* catalog may carry no scale
IosAssetTemplates ==
  << [kind |-> "Icon", name |-> "AppIcon-20x20@1x.png"],
     [kind |-> "NotificationIcon", name |-> "AppIcon-20x20@2x.png", scale |-> 2],
     [kind |-> "SettingsIcon", name |-> "AppIcon-29x29@2x.png", scale |-> 2],
     [kind |-> "SpotlightIcon", name |-> "AppIcon-40x40@2x.png", scale |-> 2],
     [kind |-> "Icon", name |-> "AppIcon-512@2x.png", scale |-> 2],
     IOS_2X_UNIVERSAL_ANYANY_SPLASH,
     IOS_2X_UNIVERSAL_ANYANY_SPLASH_DARK >>

\* ------------------------------------------------------------ Contents.json
\* the file: absent, not JSON, or a JSON document (a record that may or may
\* not have an images member)
Missing == [type |-> "missing"]
Garbage == [type |-> "garbage"]
Json(doc) == [type |-> "json", doc |-> doc]

InfoMember == [author |-> "xcode", version |-> 1]

ValidEntry ==
  [idiom |-> "universal", scale |-> "2x", filename |-> "Default@2x~universal~anyany.png"]
\* a placeholder entry: no file behind it
EmptyNameEntry == [idiom |-> "universal", scale |-> "3x", filename |-> ""]
InitEntries == {ValidEntry, EmptyNameEntry}

RECURSIVE SeqsUpTo(_, _)
SeqsUpTo(S, n) ==
  IF n = 0 THEN {<< >>}
  ELSE LET shorter == SeqsUpTo(S, n - 1)
       IN shorter \cup {Append(s, e) : s \in shorter, e \in S}

InitManifests ==
  {Missing, Garbage, Json([info |-> InfoMember])}
    \cup {Json([images |-> im, info |-> InfoMember]) : im \in SeqsUpTo(InitEntries, MaxInit)}

\* !!i.filename
HasFilename(i) == "filename" \in DOMAIN i /\ i.filename # ""

\* faulty variant: the filter keeps every entry
WithoutMissingKeepsAll(images) == images

\* parsed.images.filter((i) => !!i.filename)
WithoutMissing(images) == SelectSeq(images, HasFilename)

\* `${generated.template.scale ?? 1}x`
ScaleString(template) ==
  IF "scale" \in DOMAIN template THEN ToString(template.scale) \o "x" ELSE "1x"

\* faulty variant: the pushed entry is tagged light
DarkEntryTaggedLight(template) ==
  [appearances |-> << [appearance |-> "luminosity", value |-> "light"] >>,
   idiom |-> "universal",
   scale |-> ScaleString(template),
   filename |-> template.name]

\* the object pushed by updateContentsJsonDark
DarkEntry(template) ==
  [appearances |-> << [appearance |-> "luminosity", value |-> "dark"] >>,
   idiom |-> "universal",
   scale |-> ScaleString(template),
   filename |-> template.name]

\* parsed after `parsed.images = withoutMissing` (the other members are kept)
Merged(doc, template) ==
  [doc EXCEPT !.images = Append(WithoutMissing(doc.images), DarkEntry(template))]

\* ----------------------------------------------------------------- dispatch
\* faulty variant: the second `case AssetKind.Icon` (return []) is the one taken
DispatchSecondIconCase(kind) ==
  CASE kind \in {"Logo", "LogoDark"} -> "generateFromLogo"
    [] kind = "Icon" -> "none"
    [] kind = "NotificationIcon" -> "generateNotificationIcons"
    [] kind = "SettingsIcon" -> "generateSettingsIcons"
    [] kind = "SpotlightIcon" -> "generateSpotlightIcons"
    [] kind \in {"Splash", "SplashDark"} -> "generateSplashes"
    [] OTHER -> "none"

\* faulty variant: the switch has a default that falls into the last case
DispatchDefaultFallsThrough(kind) ==
  CASE kind \in {"Logo", "LogoDark"} -> "generateFromLogo"
    [] kind = "Icon" -> "generateIcons"
    [] kind = "NotificationIcon" -> "generateNotificationIcons"
    [] kind = "SettingsIcon" -> "generateSettingsIcons"
    [] kind = "SpotlightIcon" -> "generateSpotlightIcons"
    [] OTHER -> "generateSplashes"

\* the switch of generate(): the first matching case wins, so the second
\* `case AssetKind.Icon` is never taken
Dispatch(kind) ==
  CASE kind \in {"Logo", "LogoDark"} -> "generateFromLogo"
    [] kind = "Icon" -> "generateIcons"
    [] kind = "NotificationIcon" -> "generateNotificationIcons"
    [] kind = "SettingsIcon" -> "generateSettingsIcons"
    [] kind = "SpotlightIcon" -> "generateSpotlightIcons"
    [] kind \in {"Splash", "SplashDark"} -> "generateSplashes"
    [] OTHER -> "none"

\* the kinds each handler filters the catalog by
HandlerKinds(handler) ==
  CASE handler = "generateFromLogo" -> IconFamily
    [] handler = "generateIcons" -> {"Icon"}
    [] handler = "generateNotificationIcons" -> {"NotificationIcon"}
    [] handler = "generateSettingsIcons" -> {"SettingsIcon"}
    [] handler = "generateSpotlightIcons" -> {"SpotlightIcon"}
    [] OTHER -> {}

\* Object.values(IosAssetTemplates).filter(...), as indices into the catalog
IconsOf(handler) ==
  {i \in DOMAIN IosAssetTemplates : IosAssetTemplates[i].kind \in HandlerKinds(handler)}

\* faulty variant: every logo kind gets the light splash
WantsLightSplashAnyLogo(kind) == kind \in {"Logo", "LogoDark"}

\* generateFromLogo: `if (asset.kind === AssetKind.Logo)`
WantsLightSplash(kind) == kind = "Logo"

\* generateSplashes: assetMeta
SplashTemplate(kind) ==
  IF kind = "Splash" THEN IOS_2X_UNIVERSAL_ANYANY_SPLASH
  ELSE IOS_2X_UNIVERSAL_ANYANY_SPLASH_DARK

\* faulty variant: every splash kind is registered
NeedsRegistrationAnySplash(kind) == kind \in {"Splash", "SplashDark"}

\* generateSplashes: `if (asset.kind === AssetKind.SplashDark)`
NeedsRegistration(kind) == kind = "SplashDark"

\* -------------------------------------------------------------------- state
VARIABLES
  iosDir,        \* project.config.ios?.path is set
  manifest,      \* the content of <imageset>/Contents.json
  files,         \* the image files on disk (destination paths)
  pc,            \* where each call of generate() stands
  asset,         \* the call's input asset: kind, and whether pipeline() is bound
  logos,         \* generateFromLogo: logos; _generateIcons: the joined result
  generated,     \* generateFromLogo: generated; generateSplashes: generated
  parsed,        \* updateContentsJsonDark: parsed
  result,        \* the list generate() returned
  error,         \* the error generate() threw
  log,           \* history: the file operations the call has completed
  pre,           \* history: Contents.json when the latest call started
  nCalls,        \* history: calls started
  regCount,      \* history: Contents.json writes completed
  lost,          \* history: a write replaced a file that was not the one read
  initManifest   \* history: Contents.json at the start

vars ==
  <<iosDir, manifest, files, pc, asset, logos, generated, parsed, result, error,
    log, pre, nCalls, regCount, lost, initManifest>>

NoDoc == [unread |-> TRUE]
NoAsset == [kind |-> "Other", pipe |-> FALSE]

ToFile(path) == [op |-> "toFile", path |-> path]
ReadFile(path) == [op |-> "readFile", path |-> path]
WriteFile(path) == [op |-> "writeFile", path |-> path]

\* new OutputAsset(template, asset, project, {..: dest}, {..: outputInfo})
OutputAsset(template, dest) == [template |-> template, dest |-> dest]

Init ==
  /\ iosDir \in BOOLEAN
  /\ manifest \in InitManifests
  /\ initManifest = manifest
  /\ files = {}
  /\ pc = [c \in Procs |-> "idle"]
  /\ asset = [c \in Procs |-> NoAsset]
  /\ logos = [c \in Procs |-> << >>]
  /\ generated = [c \in Procs |-> << >>]
  /\ parsed = [c \in Procs |-> NoDoc]
  /\ result = [c \in Procs |-> << >>]
  /\ error = [c \in Procs |-> "none"]
  /\ log = [c \in Procs |-> << >>]
  /\ pre = manifest
  /\ nCalls = 0
  /\ regCount = 0
  /\ lost = FALSE

Returned(c) == pc[c] = "done"
Threw(c) == pc[c] = "failed"
Running(c) == pc[c] \notin {"idle", "done", "failed"}

\* `throw`: the call ends with the error and returns nothing
Throw(c, e) ==
  /\ pc' = [pc EXCEPT ![c] = "failed"]
  /\ error' = [error EXCEPT ![c] = e]
  /\ result' = [result EXCEPT ![c] = << >>]

\* `return list`
Return(c, list) ==
  /\ pc' = [pc EXCEPT ![c] = "done"]
  /\ result' = [result EXCEPT ![c] = list]
  /\ error' = error

Goto(c, label) ==
  /\ pc' = [pc EXCEPT ![c] = label]
  /\ UNCHANGED <<result, error>>

\* the first await of each handler
FirstAwait(kind) ==
  IF Dispatch(kind) = "generateSplashes" THEN "splash" ELSE "icons"

\* faulty variant: the pipeline check is left out
PipeMissingUnchecked(a) == FALSE

\* the pipeline check at the head of generateFromLogo, _generateIcons and
\* generateSplashes
PipeMissing(a) == ~a.pipe

\* generate(asset, project) up to the first await of the handler it picks
Generate(c, kind, pipe) ==
  /\ ~Running(c)
  /\ nCalls < MaxCalls
  /\ nCalls' = nCalls + 1
  /\ asset' = [asset EXCEPT ![c] = [kind |-> kind, pipe |-> pipe]]
  /\ logos' = [logos EXCEPT ![c] = << >>]
  /\ generated' = [generated EXCEPT ![c] = << >>]
  /\ parsed' = [parsed EXCEPT ![c] = NoDoc]
  /\ log' = [log EXCEPT ![c] = << >>]
  /\ pre' = manifest
  /\ IF ~iosDir THEN Throw(c, "BadProjectError")
     ELSE IF Dispatch(kind) = "none" THEN Return(c, << >>)
     ELSE IF PipeMissing(asset'[c]) THEN Throw(c, "BadPipelineError")
     ELSE Goto(c, FirstAwait(kind))
  /\ UNCHANGED <<iosDir, manifest, files, regCount, lost, initManifest>>

\* the catalog indices of S in catalog order
RECURSIVE InOrder(_, _)
InOrder(S, i) ==
  IF i > Len(IosAssetTemplates) THEN << >>
  ELSE (IF i \in S THEN <<i>> ELSE << >>) \o InOrder(S, i + 1)

IconDest(i) == join(IOS_APP_ICON_SET_PATH, IosAssetTemplates[i].name)

\* faulty variant: the dark splash is registered before it is written
AfterLogosRegistersFirst(kind) == IF kind = "Logo" THEN "light" ELSE "read"

\* where generateFromLogo goes on after `await this.generateIconsForLogo`
AfterLogos(kind) == IF WantsLightSplash(kind) THEN "light" ELSE "dark"

\* _generateIcons: Promise.all(icons.map(...toFile(dest)...)).  Every write is
\* started before the first await and none is cancelled when a sibling fails:
\* written is the set of icon files that got written, all but the failing
\* ones; the join succeeds when all did
GenerateIcons(c) ==
  /\ pc[c] = "icons"
  /\ LET handler == Dispatch(asset[c].kind)
         icons == IconsOf(handler)
     IN \E written \in {w \in SUBSET icons : Cardinality(icons \ w) <= MaxFailures} :
          LET order == InOrder(written, 1)
              outs == [k \in 1..Len(order) |->
                         OutputAsset(IosAssetTemplates[order[k]], IconDest(order[k]))]
          IN /\ files' = files \cup {IconDest(i) : i \in written}
             /\ log' = [log EXCEPT ![c] =
                          @ \o [k \in 1..Len(order) |-> ToFile(IconDest(order[k]))]]
             /\ IF written # icons
                THEN Throw(c, "TransformError") /\ logos' = logos
                ELSE /\ logos' = [logos EXCEPT ![c] = outs]
                     /\ IF handler = "generateFromLogo"
                        THEN Goto(c, AfterLogos(asset[c].kind))
                        ELSE Return(c, outs)
  /\ UNCHANGED <<iosDir, manifest, asset, generated, parsed, pre, nCalls, regCount,
                 lost, initManifest>>

\* one composite-and-write (generateFromLogo) or resize-and-write
\* (generateSplashes) of a splash template; ok is whether sharp succeeded
WriteSplash(c, template, ok, next) ==
  LET dest == join(IOS_SPLASH_IMAGE_SET_PATH, template.name)
  IN IF ok
     THEN /\ files' = files \cup {dest}
          /\ log' = [log EXCEPT ![c] = Append(@, ToFile(dest))]
          /\ generated' = [generated EXCEPT ![c] = Append(@, OutputAsset(template, dest))]
          /\ IF next = "return"
             THEN Return(c, logos[c] \o generated'[c])
             ELSE Goto(c, next)
     ELSE /\ Throw(c, "TransformError")
          /\ UNCHANGED <<files, log, generated>>

\* generateFromLogo: the light splash
LightSplash(c) ==
  /\ pc[c] = "light"
  /\ \E ok \in BOOLEAN : WriteSplash(c, IOS_2X_UNIVERSAL_ANYANY_SPLASH, ok, "dark")
  /\ UNCHANGED <<iosDir, manifest, asset, logos, parsed, pre, nCalls, regCount, lost,
                 initManifest>>

\* generateFromLogo: the dark splash, then updateContentsJsonDark
DarkSplash(c) ==
  /\ pc[c] = "dark"
  /\ \E ok \in BOOLEAN : WriteSplash(c, IOS_2X_UNIVERSAL_ANYANY_SPLASH_DARK, ok, "read")
  /\ UNCHANGED <<iosDir, manifest, asset, logos, parsed, pre, nCalls, regCount, lost,
                 initManifest>>

\* what generateSplashes does after the write
AfterSplash(kind) == IF NeedsRegistration(kind) THEN "read" ELSE "return"

\* generateSplashes: pipe.resize(...).png().toFile(dest)
GenerateSplashes(c) ==
  /\ pc[c] = "splash"
  /\ \E ok \in BOOLEAN :
       WriteSplash(c, SplashTemplate(asset[c].kind), ok, AfterSplash(asset[c].kind))
  /\ UNCHANGED <<iosDir, manifest, asset, logos, parsed, pre, nCalls, regCount, lost,
                 initManifest>>

\* faulty variant: a file that cannot be read or parsed counts as an empty manifest
ParseContentsJsonRecovering(file) ==
  IF file.type = "json" /\ "images" \in DOMAIN file.doc
  THEN [error |-> "none", doc |-> file.doc]
  ELSE [error |-> "none", doc |-> [images |-> << >>]]

\* readFile + JSON.parse + parsed.images.filter: the document, or the error
\* thrown (readFile: ENOENT; JSON.parse: SyntaxError; .filter of undefined:
\* TypeError)
ParseContentsJson(file) ==
  IF file.type = "missing" THEN [error |-> "ENOENT"]
  ELSE IF file.type = "garbage" THEN [error |-> "SyntaxError"]
  ELSE IF "images" \notin DOMAIN file.doc THEN [error |-> "TypeError"]
  ELSE [error |-> "none", doc |-> file.doc]

\* updateContentsJsonDark up to `await writeFile`
ReadContentsJson(c) ==
  /\ pc[c] = "read"
  /\ log' = [log EXCEPT ![c] = Append(@, ReadFile(ContentsJsonPath))]
  /\ LET read == ParseContentsJson(manifest)
     IN IF read.error # "none"
        THEN Throw(c, read.error) /\ parsed' = parsed
        ELSE /\ parsed' = [parsed EXCEPT ![c] = read.doc]
             /\ Goto(c, "write")
  /\ UNCHANGED <<iosDir, manifest, files, asset, logos, generated, pre, nCalls,
                 regCount, lost, initManifest>>

\* faulty variant: the merge starts from the file as it is at the write
MergeBaseRereads(c) == manifest.doc

\* the document updateContentsJsonDark merges into: the one it read
MergeBase(c) == parsed[c]

\* updateContentsJsonDark: writeFile(JSON.stringify(parsed)), and the return
\* of the handler that awaited it
WriteContentsJson(c) ==
  /\ pc[c] = "write"
  /\ LET template == generated[c][Len(generated[c])].template
     IN manifest' = Json(Merged(MergeBase(c), template))
  /\ log' = [log EXCEPT ![c] = Append(@, WriteFile(ContentsJsonPath))]
  /\ regCount' = regCount + 1
  /\ lost' = (lost \/ manifest # Json(parsed[c]))
  /\ Return(c, logos[c] \o generated[c])
  /\ UNCHANGED <<iosDir, files, asset, logos, generated, parsed, pre, nCalls,
                 initManifest>>

Step(c) ==
  \/ GenerateIcons(c)
  \/ LightSplash(c)
  \/ DarkSplash(c)
  \/ GenerateSplashes(c)
  \/ ReadContentsJson(c)
  \/ WriteContentsJson(c)

\* one caller, awaiting each call of generate() before the next
Next ==
  \/ \E kind \in AssetKind, pipe \in BOOLEAN : Generate("p1", kind, pipe)
  \/ Step("p1")

Spec == Init /\ [][Next]_vars

\* the kinds whose handler ends in updateContentsJsonDark
RegisteringKinds == {"Logo", "LogoDark", "SplashDark"}

\* two callers in parallel on one project.  Left out: the calls of the other
\* kinds, which touch neither the image set nor Contents.json, and the calls
\* without a pipeline, which end before their first await
NextConc ==
  \E c \in Procs :
    \/ \E kind \in RegisteringKinds : Generate(c, kind, TRUE)
    \/ Step(c)

SpecConc == Init /\ [][NextConc]_vars

\* ------------------------------------------------------------------- claims
\* The formulas below name kinds, templates and entries literally, so that
\* they say the same whatever the operators of the model compute.

Called(c) == pc[c] # "idle"
LightName == "Default@2x~universal~anyany.png"
DarkName == "Default@2x~universal~anyany-dark.png"
LightDest == "App/Assets.xcassets/Splash.imageset/Default@2x~universal~anyany.png"
DarkDest == "App/Assets.xcassets/Splash.imageset/Default@2x~universal~anyany-dark.png"
ContentsJson == "App/Assets.xcassets/Splash.imageset/Contents.json"
DarkAppearances == << [appearance |-> "luminosity", value |-> "dark"] >>
\* "<template.scale, or 1 when it has none>x"
ExpectedScale(template) ==
  IF "scale" \in DOMAIN template THEN ToString(template.scale) \o "x" ELSE "1x"
ExpectedDarkEntry ==
  [appearances |-> DarkAppearances, idiom |-> "universal",
   scale |-> ExpectedScale(IOS_2X_UNIVERSAL_ANYANY_SPLASH_DARK),
   filename |-> IOS_2X_UNIVERSAL_ANYANY_SPLASH_DARK.name]
HandledKinds ==
  {"Logo", "LogoDark", "Icon", "NotificationIcon", "SettingsIcon", "SpotlightIcon",
   "Splash", "SplashDark"}

\* the entries of a list that have a non-empty filename, in order
Kept(images) ==
  SelectSeq(images, LAMBDA i : "filename" \in DOMAIN i /\ i.filename # "")
Copies(e, k) == [i \in 1..k |-> e]
\* how many OutputAssets of a returned list are of the template called name
CountOf(list, name) == Cardinality({i \in DOMAIN list : list[i].template.name = name})
ManifestOps(c) == {i \in DOMAIN log[c] : log[c][i].path = ContentsJson}
HasImages(file) == file.type = "json" /\ "images" \in DOMAIN file.doc

\* C1: after k >= 1 successful registrations run one after another, the
\* images list is the entries of the initial manifest that have a non-empty
\* filename, in order and unmodified, followed by k dark entries
\* {appearances: [luminosity/dark], idiom: universal, scale: "<the template's
\* scale, or 1>x", filename: the template's name}; the other members of the
\* document are untouched.
C1_MergeAppends ==
  regCount >= 1 =>
    /\ HasImages(initManifest)
    /\ manifest =
         Json([initManifest.doc EXCEPT
                 !.images = Kept(initManifest.doc.images) \o Copies(ExpectedDarkEntry, regCount)])

\* C1 witness: a manifest of one malformed and one valid entry, after the same
\* dark variant was registered twice: the valid entry and two equal entries.
C1_Witness ==
  /\ regCount = 2
  /\ initManifest.type = "json"
  /\ initManifest.doc.images = <<EmptyNameEntry, ValidEntry>>
  /\ manifest.doc.images = <<ValidEntry, ExpectedDarkEntry, ExpectedDarkEntry>>

\* C2: a generate call of kind Logo or LogoDark that returns, returns exactly
\* one OutputAsset of the dark splash template, and one of the light splash
\* template if the kind is Logo and none if it is LogoDark.
C2_LogoSplashes ==
  \A c \in Procs :
    (Returned(c) /\ asset[c].kind \in {"Logo", "LogoDark"}) =>
      /\ CountOf(result[c], DarkName) = 1
      /\ CountOf(result[c], LightName) = (IF asset[c].kind = "Logo" THEN 1 ELSE 0)

\* C2 witness: a LogoDark call has returned a dark splash and no light one.
C2_Witness ==
  /\ Returned("p1")
  /\ asset["p1"].kind = "LogoDark"
  /\ CountOf(result["p1"], DarkName) = 1
  /\ CountOf(result["p1"], LightName) = 0

\* C3: a generate call of kind K in {Icon, NotificationIcon, SettingsIcon,
\* SpotlightIcon} that returns, returns exactly one OutputAsset per catalog
\* template of kind K and none of any other template; never the empty list.
C3_IconFamilies ==
  \A c \in Procs :
    (Returned(c) /\
     asset[c].kind \in {"Icon", "NotificationIcon", "SettingsIcon", "SpotlightIcon"}) =>
      /\ result[c] # << >>
      /\ \A i \in DOMAIN IosAssetTemplates :
           CountOf(result[c], IosAssetTemplates[i].name)
             = (IF IosAssetTemplates[i].kind = asset[c].kind THEN 1 ELSE 0)
      /\ \A k \in DOMAIN result[c] :
           \E i \in DOMAIN IosAssetTemplates : result[c][k].template = IosAssetTemplates[i]

\* C3 witness: an Icon call has returned the two plain app icons.
C3_Witness ==
  /\ Returned("p1")
  /\ asset["p1"].kind = "Icon"
  /\ Len(result["p1"]) = 2

\* C4 as claimed: a call with a kind that has no handler never fails, whatever
\* the project handle and the transform handle.
C4_Original_NeverFails ==
  \A c \in Procs : (Called(c) /\ asset[c].kind \notin HandledKinds) => ~Threw(c)

\* C4 amended: with the ios directory configured, a call with a kind that has
\* no handler returns the empty list and touches no file, with or without a
\* transform handle; without the ios directory it fails with BadProjectError.
C4_UnmappedKinds ==
  \A c \in Procs :
    (Called(c) /\ asset[c].kind \notin HandledKinds) =>
      /\ log[c] = << >>
      /\ IF iosDir
         THEN Returned(c) /\ result[c] = << >>
         ELSE Threw(c) /\ error[c] = "BadProjectError"

\* C4 witness: an unmapped kind without a transform handle returned [].
C4_Witness ==
  /\ iosDir
  /\ Returned("p1")
  /\ asset["p1"] = [kind |-> "Other", pipe |-> FALSE]
  /\ result["p1"] = << >>

\* C5 as claimed: a call whose asset has no transform handle fails with
\* BadPipelineError, for every kind, before any file operation.
C5_Original_EveryKind ==
  \A c \in Procs :
    (Called(c) /\ ~asset[c].pipe) =>
      Threw(c) /\ error[c] = "BadPipelineError" /\ log[c] = << >>

\* C5 amended: with the ios directory configured, a call of one of the eight
\* handled kinds whose asset has no transform handle fails with
\* BadPipelineError before any image file is written and before Contents.json
\* is read or written.
C5_NoPipeline ==
  \A c \in Procs :
    (Called(c) /\ iosDir /\ asset[c].kind \in HandledKinds /\ ~asset[c].pipe) =>
      /\ Threw(c)
      /\ error[c] = "BadPipelineError"
      /\ log[c] = << >>
      /\ manifest = pre

\* C5 witness: a SplashDark call without a transform handle has failed.
C5_Witness ==
  /\ Threw("p1")
  /\ asset["p1"] = [kind |-> "SplashDark", pipe |-> FALSE]
  /\ error["p1"] = "BadPipelineError"

\* C6 as claimed: a SplashDark call that returns, returns one OutputAsset and
\* leaves the images list exactly one entry longer than before the call, the
\* added entry being the dark one.
C6_Original_OneLonger ==
  (Returned("p1") /\ asset["p1"].kind = "SplashDark") =>
    /\ Len(result["p1"]) = 1
    /\ Len(manifest.doc.images) = Len(pre.doc.images) + 1
    /\ manifest.doc.images[Len(manifest.doc.images)].appearances = DarkAppearances

\* C6 amended: a SplashDark call that returns, no other call running, returns
\* one OutputAsset and leaves the images list equal to the entries it had
\* before the call that have a non-empty filename, followed by one entry with
\* appearances [luminosity/dark]: one longer than the number of such entries.
C6_SplashDarkRegisters ==
  (Returned("p1") /\ asset["p1"].kind = "SplashDark") =>
    /\ Len(result["p1"]) = 1
    /\ result["p1"][1].template.name = DarkName
    /\ HasImages(pre)
    /\ Len(manifest.doc.images) = Len(Kept(pre.doc.images)) + 1
    /\ SubSeq(manifest.doc.images, 1, Len(manifest.doc.images) - 1) = Kept(pre.doc.images)
    /\ manifest.doc.images[Len(manifest.doc.images)].appearances = DarkAppearances

\* C6 witness: a SplashDark call returned on a manifest that held a malformed
\* entry: the list did not grow by one.
C6_Witness ==
  /\ Returned("p1")
  /\ asset["p1"].kind = "SplashDark"
  /\ pre.doc.images = <<EmptyNameEntry, ValidEntry>>
  /\ Len(manifest.doc.images) = 2

\* C7: a generate call of kind Splash never reads or writes Contents.json,
\* whatever its state; when it returns it returns exactly one OutputAsset, of
\* the light splash template, and has written exactly one file, at
\* <image set>/<light splash name>.
C7_SplashFrame ==
  \A c \in Procs :
    (Called(c) /\ asset[c].kind = "Splash") =>
      /\ ManifestOps(c) = {}
      /\ manifest = pre
      /\ Returned(c) =>
           /\ Len(result[c]) = 1
           /\ result[c][1].template.name = LightName
           /\ result[c][1].dest = LightDest
           /\ log[c] = << [op |-> "toFile", path |-> LightDest] >>
           /\ LightDest \in files

\* C7 witness: a Splash call returned while Contents.json is not JSON.
C7_Witness ==
  /\ Returned("p1")
  /\ asset["p1"].kind = "Splash"
  /\ manifest.type \in {"missing", "garbage"}

\* C8: when Contents.json is missing or is not JSON and a call of kind
\* SplashDark, Logo or LogoDark has come to read it, the call has failed
\* with the read's error and returned nothing, Contents.json is as it was,
\* and every image file the call wrote, the dark splash among them, is on
\* disk.
C8_RegistrationFails ==
  \A c \in Procs :
    (/\ asset[c].kind \in {"SplashDark", "Logo", "LogoDark"}
     /\ ManifestOps(c) # {}
     /\ initManifest.type \in {"missing", "garbage"}) =>
      /\ Threw(c)
      /\ error[c] = (IF initManifest.type = "missing" THEN "ENOENT" ELSE "SyntaxError")
      /\ result[c] = << >>
      /\ manifest = initManifest
      /\ \A i \in DOMAIN log[c] : log[c][i].op # "writeFile"
      /\ \A i \in DOMAIN log[c] : log[c][i].op = "toFile" => log[c][i].path \in files
      /\ \E i \in DOMAIN log[c] : log[c][i] = [op |-> "toFile", path |-> DarkDest]

\* C8 witness: a Logo call failed on a Contents.json that is not JSON, its
\* light and dark splash on disk.
C8_Witness ==
  /\ Threw("p1")
  /\ asset["p1"].kind = "Logo"
  /\ error["p1"] = "SyntaxError"
  /\ {LightDest, DarkDest} \subseteq files

\* C9: in every call, every read and every write of Contents.json comes
\* after the completed write of the call's dark splash file, the read before
\* the write; so a call whose dark splash write failed never touches it.
C9_RegistrationAfterDarkWrite ==
  \A c \in Procs :
    /\ \A i \in ManifestOps(c) :
         \E j \in 1..(i - 1) : log[c][j] = [op |-> "toFile", path |-> DarkDest]
    /\ \A i \in ManifestOps(c) :
         log[c][i].op = "writeFile" => \E j \in 1..(i - 1) : log[c][j].op = "readFile"

\* C9 witness: a Logo call registered its dark splash while the other call's
\* dark splash write failed and left Contents.json untouched by it.
C9_Witness ==
  /\ Returned("p1")
  /\ asset["p1"].kind = "Logo"
  /\ Cardinality(ManifestOps("p1")) = 2
  /\ Threw("p2")
  /\ error["p2"] = "TransformError"
  /\ asset["p2"].kind = "SplashDark"
  /\ log["p2"] = << >>

\* C10: registrations are an unlocked read-modify-write: Contents.json holds
\* the valid initial entries followed by k dark entries, 1 <= k <= the number
\* of completed registrations, and k is smaller than that number exactly when
\* some registration overwrote a file that was no longer the one it had read.
C10_LostUpdate ==
  regCount >= 1 =>
    /\ HasImages(initManifest)
    /\ \E k \in 1..regCount :
         /\ manifest.doc.images =
              Kept(initManifest.doc.images) \o Copies(ExpectedDarkEntry, k)
         /\ (k < regCount) <=> lost

\* C10 witness: two calls for different assets both returned, both read before
\* either wrote, both image files are on disk, and Contents.json holds one
\* dark entry only.
C10_Witness ==
  /\ Returned("p1") /\ Returned("p2")
  /\ asset["p1"].kind = "SplashDark" /\ asset["p2"].kind = "Logo"
  /\ parsed["p1"] = parsed["p2"]
  /\ regCount = 2
  /\ {DarkDest, LightDest} \subseteq files
  /\ manifest.doc.images = Kept(initManifest.doc.images) \o <<ExpectedDarkEntry>>

====
